---- MODULE Spec2Model ----
(***************************************************************************)
(* Model of flask-app/app.py: the in-memory task collection, the request   *)
(* handlers registered on the Flask application, and the URL dispatch in   *)
(* front of them.                                                          *)
(*                                                                         *)
(* JSON scalars are written as strings.  A JSON string stands for itself;  *)
(* the literals true, false, null and the numbers are written "true",      *)
(* "false", "null", "0", "99" (no JSON string of the model is spelled like *)
(* a literal).  A JSON object is a function from its keys to their values. *)
(***************************************************************************)
EXTENDS Integers, Sequences, FiniteSets, TLC

VARIABLES
    tasks,      \* the list bound to the module-level name `tasks`
    req,        \* the method and path of the most recent dispatched request
    resp,       \* the response to the most recent request
    ever_ids,   \* history: every id that was ever in the collection
    tasks_obj,  \* identity of the list object bound to `tasks`
    pc,         \* per worker thread: position inside its handler
    local       \* per worker thread: the handler's local variables

vars == <<tasks, req, resp, ever_ids, tasks_obj, pc, local>>

(***************************************************************************)
(* Bounds of the model.                                                    *)
(***************************************************************************)
\* no task is created once the highest id has reached MaxId
MaxId == 3
\* requests one worker thread serves in the concurrent specification
MaxReqs == 2

(***************************************************************************)
(* Python values.                                                          *)
(***************************************************************************)
\* bool(v) of a JSON scalar: false, null, 0 and "" are falsy
Truthy(v) == v \notin {"false", "null", "0", ""}

Max(S) == CHOOSE m \in S : \A n \in S : n <= m

Range(f) == {f[x] : x \in DOMAIN f}

\* [x for x in s if Keep(x)]
Filter(s, Keep(_)) == SelectSeq(s, Keep)

\* the ids of the list l, in the set form used by max(...)
Ids(l) == {l[i].id : i \in DOMAIN l}

\* next((task for task in l if task["id"] == task_id), None): the index of
\* the first match, 0 for None
Find(l, task_id) ==
    IF \E i \in DOMAIN l : l[i].id = task_id
    THEN CHOOSE i \in DOMAIN l :
            /\ l[i].id = task_id
            /\ \A j \in DOMAIN l : l[j].id = task_id => i <= j
    ELSE 0

\* datetime.utcnow().isoformat() + "Z"
Clock == {"2026-11-04T12:00:00.000000Z"}

SeedTasks ==
    << [id |-> 1, title |-> "Learn Docker",
        description |-> "Understand containerization",
        completed |-> "false", created_at |-> "2024-01-01T00:00:00Z"],
       [id |-> 2, title |-> "Learn Kubernetes",
        description |-> "Master container orchestration",
        completed |-> "false", created_at |-> "2024-01-02T00:00:00Z"] >>

(***************************************************************************)
(* Request bodies and request.get_json().                                  *)
(***************************************************************************)
\* every function from a subset of the keys K to the values V(k)
Objects(K, V(_)) ==
    UNION { { o \in [D -> UNION {V(k) : k \in D}] : \A k \in D : o[k] \in V(k) }
            : D \in SUBSET K }

CreateValues(k) ==
    CASE k = "title" -> {"", "Write tests"}
      [] k = "description" -> {"x"}

PatchValues(k) ==
    CASE k = "title" -> {"Write tests"}
      [] k = "description" -> {"x"}
      [] k = "completed" -> {"true", "false", "yes"}
      [] k = "id" -> {"99"}
      [] k = "created_at" -> {"2000-01-01T00:00:00Z"}

\* A body is malformed text, the JSON null, a JSON array [1] or a JSON object.
NonObjectBodies ==
    { [kind |-> "malformed", obj |-> <<>>],
      [kind |-> "null", obj |-> <<>>],
      [kind |-> "array", obj |-> <<>>] }

\* create bodies: no title, an empty title, a title with a description
CreateBodies ==
    NonObjectBodies \cup
    { [kind |-> "object", obj |-> o] :
        o \in Objects({"description"}, CreateValues)
          \cup { [title |-> ""],
                 [title |-> "Write tests", description |-> "x"] } }

\* the patches that touch `completed` only
CompletedBodies ==
    NonObjectBodies \cup
    { [kind |-> "object", obj |-> o] : o \in Objects({"completed"}, PatchValues) }

\* the patches over every updatable key, alone or with id and created_at
PatchBodies ==
    NonObjectBodies \cup
    { [kind |-> "object", obj |-> o] :
        o \in Objects({"title", "description", "completed"}, PatchValues)
          \cup { p \in Objects({"title", "description", "completed",
                                "id", "created_at"}, PatchValues) :
                    {"id", "created_at"} \subseteq DOMAIN p } }

\* request.get_json(): a body that does not parse raises BadRequest
GetJsonRaises(body) == body.kind = "malformed"

\* `not data` of the parsed body: None, {} are falsy; [1] is truthy
DataFalsy(body) ==
    \/ body.kind = "null"
    \/ body.kind = "object" /\ DOMAIN body.obj = {}

\* `key in data` for a parsed list [1] or a dict
HasKey(body, key) == body.kind = "object" /\ key \in DOMAIN body.obj

\* data.get(key, default) of a dict
DictGet(obj, key, default) == IF key \in DOMAIN obj THEN obj[key] ELSE default

(***************************************************************************)
(* Responses.                                                              *)
(***************************************************************************)
Response(handler, status, body) ==
    [handler |-> handler, status |-> status, body |-> body]

ErrorBody(text) == [error |-> text]

InternalServerError(handler) ==
    Response(handler, 500, ErrorBody("Internal server error"))

(***************************************************************************)
(* The task handlers, each as a function of the list it finds.             *)
(***************************************************************************)
\* get_task
get_task_response(l, task_id) ==
    LET i == Find(l, task_id) IN
    IF i # 0 THEN Response("get_task", 200, l[i])
    ELSE Response("get_task", 404, ErrorBody("Task not found"))

\* ids counted from the length of the list
next_id_by_length(l) == Len(l) + 1

\* ids taken from the lowest free number
next_id_lowest_free(l) == CHOOSE n \in 1 .. Len(l) + 1 :
    /\ n \notin Ids(l)
    /\ \A m \in 1 .. Len(l) + 1 : m \notin Ids(l) => n <= m

\* max([task["id"] for task in tasks], default=0) + 1
next_id(l) == (IF Ids(l) = {} THEN 0 ELSE Max(Ids(l))) + 1

\* the dict literal built by create_task
new_task(l, obj, now) ==
    [id |-> next_id(l),
     title |-> obj["title"],
     description |-> DictGet(obj, "description", ""),
     completed |-> "false",
     created_at |-> now]

\* an omitted description falls back to "" as it does in create_task
apply_patch_defaults(task, obj) ==
    [id |-> task.id,
     title |-> DictGet(obj, "title", task.title),
     description |-> DictGet(obj, "description", ""),
     completed |-> DictGet(obj, "completed", task.completed),
     created_at |-> task.created_at]

\* the three assignments of update_task on one task dict
apply_patch(task, obj) ==
    [id |-> task.id,
     title |-> DictGet(obj, "title", task.title),
     description |-> DictGet(obj, "description", task.description),
     completed |-> DictGet(obj, "completed", task.completed),
     created_at |-> task.created_at]

\* the task is removed by position, as if ids were list positions
without_by_position(l, task_id) ==
    IF task_id \in DOMAIN l
    THEN SubSeq(l, 1, task_id - 1) \o SubSeq(l, task_id + 1, Len(l))
    ELSE l

\* tasks = [task for task in tasks if task["id"] != task_id]
without(l, task_id) ==
    LET Keep(t) == t.id # task_id IN Filter(l, Keep)

\* completed and pending counted by comparison with true and false
metrics_body_strict(l) ==
    LET Done(t) == t.completed = "true"
        Pending(t) == t.completed = "false"
    IN [total_tasks |-> Len(l),
        completed_tasks |-> Len(Filter(l, Done)),
        pending_tasks |-> Len(Filter(l, Pending))]

\* the body of the metrics response
metrics_body(l) ==
    LET Done(t) == Truthy(t.completed)
        Pending(t) == ~Truthy(t.completed)
    IN [total_tasks |-> Len(l),
        completed_tasks |-> Len(Filter(l, Done)),
        pending_tasks |-> Len(Filter(l, Pending))]

(***************************************************************************)
(* Initial state: the module has been imported.                            *)
(***************************************************************************)
Threads == {1, 2}

NoRequest == [method |-> "none", path |-> <<>>]

NoResponse == Response("none", 0, [none |-> TRUE])

Idle == [task_id |-> 0, body |-> <<>>, ref |-> 0, lst |-> <<>>,
         new |-> [id |-> 0], resp |-> NoResponse, served |-> 0]

Init ==
    /\ tasks = SeedTasks
    /\ req = NoRequest
    /\ resp = NoResponse
    /\ ever_ids = Ids(SeedTasks)
    /\ tasks_obj = 0
    /\ pc = [t \in Threads |-> "idle"]
    /\ local = [t \in Threads |-> Idle]


(***************************************************************************)
(* URL dispatch: the rules registered by @app.route, matched as werkzeug   *)
(* matches them.  A path is its sequence of segments.                      *)
(***************************************************************************)
Digits == <<"0", "1", "2", "3", "4", "5", "6", "7", "8", "9">>

\* the <int:...> converter accepts a run of digits (one digit here)
IsInt(seg) == \E n \in DOMAIN Digits : Digits[n] = seg

\* ... and hands int(seg) to the view function
ToInt(seg) == (CHOOSE n \in DOMAIN Digits : Digits[n] = seg) - 1

url_map ==
    { [rule |-> <<>>, methods |-> {"GET"}, endpoint |-> "home"],
      [rule |-> <<"health">>, methods |-> {"GET"}, endpoint |-> "health"],
      [rule |-> <<"ready">>, methods |-> {"GET"}, endpoint |-> "ready"],
      [rule |-> <<"tasks">>, methods |-> {"GET"}, endpoint |-> "get_tasks"],
      [rule |-> <<"tasks", "<int>">>, methods |-> {"GET"},
       endpoint |-> "get_task"],
      [rule |-> <<"tasks">>, methods |-> {"POST"}, endpoint |-> "create_task"],
      [rule |-> <<"tasks", "<int>">>, methods |-> {"PUT"},
       endpoint |-> "update_task"],
      [rule |-> <<"tasks", "<int>">>, methods |-> {"DELETE"},
       endpoint |-> "delete_task"],
      [rule |-> <<"metrics">>, methods |-> {"GET"}, endpoint |-> "metrics"] }

\* the path matches the rule, segment by segment
MatchRule(rule, path) ==
    /\ Len(rule) = Len(path)
    /\ \A i \in DOMAIN rule :
          IF rule[i] = "<int>" THEN IsInt(path[i]) ELSE rule[i] = path[i]

\* Flask adds HEAD to a rule that takes GET
RuleMethods(r) ==
    r.methods \cup (IF "GET" \in r.methods THEN {"HEAD"} ELSE {})

\* The endpoint a request is dispatched to: a view function, the automatic
\* OPTIONS response, or the NotFound / MethodNotAllowed the matcher raises.
Route(method, path) ==
    LET matching == {r \in url_map : MatchRule(r.rule, path)} IN
    IF matching = {} THEN "not_found"
    ELSE IF \E r \in matching : method \in RuleMethods(r)
    THEN (CHOOSE r \in matching : method \in RuleMethods(r)).endpoint
    ELSE IF method = "OPTIONS" THEN "options"
    ELSE "method_not_allowed"

Methods == {"GET", "HEAD", "POST", "PUT", "DELETE", "PATCH", "OPTIONS"}

TaskIds == 1 .. MaxId

Paths ==
    { <<>>, <<"health">>, <<"ready">>, <<"tasks">>, <<"metrics">>,
      <<"nonexistent">>, <<"tasks", "abc">>, <<"health", "1">> }
    \cup { <<"tasks", Digits[n + 1]>> : n \in TaskIds }

(***************************************************************************)
(* The view functions, one request handled from start to end.              *)
(***************************************************************************)
ReadOnly(response) ==
    /\ resp' = response
    /\ UNCHANGED <<tasks, ever_ids, tasks_obj, pc, local>>

home ==
    \E now \in Clock :
        ReadOnly(Response("home", 200,
                          [message |-> "Flask App Running on EKS!",
                           version |-> "1.0.0", timestamp |-> now]))

health ==
    \E now \in Clock :
        ReadOnly(Response("health", 200,
                          [status |-> "healthy", timestamp |-> now,
                           uptime |-> "Service is running"]))

ready ==
    \E now \in Clock :
        ReadOnly(Response("ready", 200,
                          [status |-> "ready", timestamp |-> now]))

get_tasks ==
    ReadOnly(Response("get_tasks", 200,
                      [tasks |-> tasks, count |-> Len(tasks)]))

get_task(task_id) == ReadOnly(get_task_response(tasks, task_id))

\* the response and the list create_task leaves, from the list it finds
create_task_result(l, body, now) ==
    IF GetJsonRaises(body)
    THEN [resp |-> InternalServerError("create_task"), tasks |-> l]
    ELSE IF DataFalsy(body) \/ ~HasKey(body, "title")
    THEN [resp |-> Response("create_task", 400,
                            ErrorBody("Title is required")),
          tasks |-> l]
    ELSE LET task == new_task(l, body.obj, now) IN
         [resp |-> Response("create_task", 201, task),
          tasks |-> Append(l, task)]

create_task(body) ==
    \E now \in Clock :
        \E r \in {create_task_result(tasks, body, now)} :
        /\ r.resp.status = 201 => next_id(tasks) <= MaxId
        /\ tasks' = r.tasks
        /\ resp' = r.resp
        /\ ever_ids' = ever_ids \cup Ids(r.tasks)
        /\ UNCHANGED <<tasks_obj, pc, local>>

\* the response and the list update_task leaves, from the list it finds
update_task_result(l, task_id, body) ==
    LET i == Find(l, task_id) IN
    IF i = 0
    THEN [resp |-> Response("update_task", 404, ErrorBody("Task not found")),
          tasks |-> l]
    ELSE IF GetJsonRaises(body)
    THEN [resp |-> InternalServerError("update_task"), tasks |-> l]
    ELSE IF DataFalsy(body)
    THEN [resp |-> Response("update_task", 400,
                            ErrorBody("No data provided")),
          tasks |-> l]
    ELSE IF body.kind # "object"
    THEN \* data.get on a list raises AttributeError
         [resp |-> InternalServerError("update_task"), tasks |-> l]
    ELSE LET task == apply_patch(l[i], body.obj) IN
         [resp |-> Response("update_task", 200, task),
          tasks |-> [l EXCEPT ![i] = task]]

update_task(task_id, body) ==
    \E r \in {update_task_result(tasks, task_id, body)} :
    /\ tasks' = r.tasks
    /\ resp' = r.resp
    /\ UNCHANGED <<ever_ids, tasks_obj, pc, local>>

\* the response and the list delete_task leaves, from the list it finds
delete_task_result(l, task_id) ==
    IF Find(l, task_id) = 0
    THEN [resp |-> Response("delete_task", 404, ErrorBody("Task not found")),
          tasks |-> l]
    ELSE [resp |-> Response("delete_task", 200,
                            [message |-> "deleted successfully",
                             task_id |-> task_id]),
          tasks |-> without(l, task_id)]

delete_task(task_id) ==
    \E r \in {delete_task_result(tasks, task_id)} :
    /\ tasks' = r.tasks
    /\ resp' = r.resp
    /\ UNCHANGED <<ever_ids, tasks_obj, pc, local>>

metrics ==
    \E now \in Clock :
        ReadOnly(Response("metrics", 200,
                          metrics_body(tasks) @@ [timestamp |-> now]))

\* werkzeug's own NotFound page, as served without an error handler
not_found_default == ReadOnly(Response("werkzeug", 404, [html |-> "Not Found"]))

\* @app.errorhandler(404)
not_found == ReadOnly(Response("not_found", 404, ErrorBody("Endpoint not found")))

\* werkzeug's MethodNotAllowed: no handler is registered for it
method_not_allowed ==
    ReadOnly(Response("werkzeug", 405, [html |-> "Method Not Allowed"]))

\* Flask's automatic OPTIONS response
options == ReadOnly(Response("flask", 200, [allow |-> "OPTIONS"]))

(***************************************************************************)
(* The task handlers called one at a time, on every body and id.           *)
(***************************************************************************)
CallGetTasks == get_tasks /\ UNCHANGED req

CallGetTask == \E task_id \in TaskIds : get_task(task_id) /\ UNCHANGED req

CallCreateTask ==
    \E body \in CreateBodies : create_task(body) /\ UNCHANGED req

CallUpdateTask ==
    \E task_id \in TaskIds : \E body \in CompletedBodies :
        update_task(task_id, body) /\ UNCHANGED req

CallDeleteTask ==
    \E task_id \in TaskIds : delete_task(task_id) /\ UNCHANGED req

CallMetrics == metrics /\ UNCHANGED req

Next ==
    \/ CallGetTasks
    \/ CallGetTask
    \/ CallCreateTask
    \/ CallUpdateTask
    \/ CallDeleteTask
    \/ CallMetrics

Spec == Init /\ [][Next]_vars

(***************************************************************************)
(* The seed tasks patched in every way, read and deleted.                  *)
(***************************************************************************)
CallPatchTask ==
    \E task_id \in TaskIds : \E body \in PatchBodies :
        update_task(task_id, body) /\ UNCHANGED req

NextPatch ==
    \/ CallPatchTask
    \/ CallGetTask
    \/ CallDeleteTask

SpecPatch == Init /\ [][NextPatch]_vars

(***************************************************************************)
(* Requests dispatched by method and path, one at a time.                  *)
(***************************************************************************)
\* the bodies sent with the dispatched requests
RoutedBodies ==
    { [kind |-> "malformed", obj |-> <<>>],
      [kind |-> "object",
       obj |-> [title |-> "Write tests", completed |-> "true"]] }

\* a request that carries no body: nothing to parse
EmptyBody == [kind |-> "malformed", obj |-> <<>>]

Requests == [method : Methods, path : Paths]

\* the endpoint of every method and path, matched once
Endpoint == [m \in Methods |-> [p \in Paths |-> Route(m, p)]]

\* the requests that reach the given endpoint
Reaches(endpoint) ==
    {rq \in Requests : Endpoint[rq.method][rq.path] = endpoint}

\* full_dispatch_request: the view function of the matched rule is called,
\* a routing exception goes to its error handler
Serve(rq, body) ==
    /\ req' = rq
    /\ \E endpoint \in {Endpoint[rq.method][rq.path]} :
       CASE endpoint = "home" -> home
         [] endpoint = "health" -> health
         [] endpoint = "ready" -> ready
         [] endpoint = "get_tasks" -> get_tasks
         [] endpoint = "get_task" -> get_task(ToInt(rq.path[2]))
         [] endpoint = "create_task" -> create_task(body)
         [] endpoint = "update_task" -> update_task(ToInt(rq.path[2]), body)
         [] endpoint = "delete_task" -> delete_task(ToInt(rq.path[2]))
         [] endpoint = "metrics" -> metrics
         [] endpoint = "not_found" -> not_found
         [] endpoint = "method_not_allowed" -> method_not_allowed
         [] endpoint = "options" -> options

Home == \E rq \in Reaches("home") : Serve(rq, EmptyBody)

Health == \E rq \in Reaches("health") : Serve(rq, EmptyBody)

Ready == \E rq \in Reaches("ready") : Serve(rq, EmptyBody)

GetTasks == \E rq \in Reaches("get_tasks") : Serve(rq, EmptyBody)

GetTask == \E rq \in Reaches("get_task") : Serve(rq, EmptyBody)

CreateTask ==
    \E rq \in Reaches("create_task") : \E body \in RoutedBodies : Serve(rq, body)

UpdateTask ==
    \E rq \in Reaches("update_task") : \E body \in RoutedBodies : Serve(rq, body)

DeleteTask == \E rq \in Reaches("delete_task") : Serve(rq, EmptyBody)

Metrics == \E rq \in Reaches("metrics") : Serve(rq, EmptyBody)

NotFound == \E rq \in Reaches("not_found") : Serve(rq, EmptyBody)

MethodNotAllowed == \E rq \in Reaches("method_not_allowed") : Serve(rq, EmptyBody)

Options == \E rq \in Reaches("options") : Serve(rq, EmptyBody)

NextRouted ==
    \/ Home
    \/ Health
    \/ Ready
    \/ GetTasks
    \/ GetTask
    \/ CreateTask
    \/ UpdateTask
    \/ DeleteTask
    \/ Metrics
    \/ NotFound
    \/ MethodNotAllowed
    \/ Options

SpecRouted == Init /\ [][NextRouted]_vars

(***************************************************************************)
(* Two worker threads (app.run serves each request in its own thread)      *)
(* inside create_task and delete_task.  A step is one access to the        *)
(* module-level name `tasks` or to the list bound to it; what a handler    *)
(* does between two accesses is local to its thread.                       *)
(***************************************************************************)
\* the thread answers: back to idle, one more request served
Answer(t, response) ==
    /\ resp' = response
    /\ UNCHANGED req
    /\ pc' = [pc EXCEPT ![t] = "idle"]
    /\ local' = [local EXCEPT ![t].resp = response,
                              ![t].served = local[t].served + 1]

\* create_task up to its validation: nothing shared is read
BeginCreate(t) ==
    /\ pc[t] = "idle"
    /\ local[t].served < MaxReqs
    /\ \E body \in RoutedBodies :
          IF GetJsonRaises(body)
          THEN /\ Answer(t, InternalServerError("create_task"))
               /\ UNCHANGED <<tasks, ever_ids, tasks_obj>>
          ELSE IF DataFalsy(body) \/ ~HasKey(body, "title")
          THEN /\ Answer(t, Response("create_task", 400,
                                     ErrorBody("Title is required")))
               /\ UNCHANGED <<tasks, ever_ids, tasks_obj>>
          ELSE /\ pc' = [pc EXCEPT ![t] = "create_id"]
               /\ local' = [local EXCEPT ![t].body = body]
               /\ UNCHANGED <<tasks, req, resp, ever_ids, tasks_obj>>

\* the dict literal: the ids are read from the list bound to `tasks` now
CreateId(t) ==
    /\ pc[t] = "create_id"
    /\ \E now \in Clock :
          local' = [local EXCEPT
                       ![t].new = new_task(tasks, local[t].body.obj, now)]
    /\ pc' = [pc EXCEPT ![t] = "create_load"]
    /\ UNCHANGED <<tasks, req, resp, ever_ids, tasks_obj>>

\* tasks.append: the name `tasks` is looked up ...
CreateLoad(t) ==
    /\ pc[t] = "create_load"
    /\ local' = [local EXCEPT ![t].ref = tasks_obj]
    /\ pc' = [pc EXCEPT ![t] = "create_append"]
    /\ UNCHANGED <<tasks, req, resp, ever_ids, tasks_obj>>

\* ... and the list found there is appended to, bound to `tasks` or not
CreateAppend(t) ==
    /\ pc[t] = "create_append"
    /\ IF local[t].ref = tasks_obj
       THEN /\ tasks' = Append(tasks, local[t].new)
            /\ ever_ids' = ever_ids \cup {local[t].new.id}
       ELSE UNCHANGED <<tasks, ever_ids>>
    /\ Answer(t, Response("create_task", 201, local[t].new))
    /\ UNCHANGED tasks_obj

\* delete_task up to its lookup of the task
BeginDelete(t) ==
    /\ pc[t] = "idle"
    /\ local[t].served < MaxReqs
    /\ \E task_id \in TaskIds :
          IF Find(tasks, task_id) = 0
          THEN /\ Answer(t, Response("delete_task", 404,
                                     ErrorBody("Task not found")))
               /\ UNCHANGED <<tasks, ever_ids, tasks_obj>>
          ELSE /\ pc' = [pc EXCEPT ![t] = "delete_filter"]
               /\ local' = [local EXCEPT ![t].task_id = task_id]
               /\ UNCHANGED <<tasks, req, resp, ever_ids, tasks_obj>>

\* the list comprehension builds a new list from the one bound to `tasks`
DeleteFilter(t) ==
    /\ pc[t] = "delete_filter"
    /\ local' = [local EXCEPT ![t].lst = without(tasks, local[t].task_id)]
    /\ pc' = [pc EXCEPT ![t] = "delete_store"]
    /\ UNCHANGED <<tasks, req, resp, ever_ids, tasks_obj>>

\* the new list is bound to the global name
DeleteStore(t) ==
    /\ pc[t] = "delete_store"
    /\ tasks' = local[t].lst
    /\ tasks_obj' = tasks_obj + 1
    /\ Answer(t, Response("delete_task", 200,
                          [message |-> "deleted successfully",
                           task_id |-> local[t].task_id]))
    /\ UNCHANGED ever_ids

NextConc ==
    \/ \E t \in Threads : BeginCreate(t)
    \/ \E t \in Threads : CreateId(t)
    \/ \E t \in Threads : CreateLoad(t)
    \/ \E t \in Threads : CreateAppend(t)
    \/ \E t \in Threads : BeginDelete(t)
    \/ \E t \in Threads : DeleteFilter(t)
    \/ \E t \in Threads : DeleteStore(t)

SpecConc == Init /\ [][NextConc]_vars

(***************************************************************************)
(* Properties.                                                             *)
(***************************************************************************)
TaskNotFound(handler) == Response(handler, 404, ErrorBody("Task not found"))

Created == resp.handler = "create_task" /\ resp.status = 201

\* C1: whatever create, update and delete requests were handled one at a
\* time since the two seed tasks, no two tasks of the collection have the
\* same id and every id is a positive integer.
C1_UniquePositiveIds ==
    \A i \in DOMAIN tasks :
        /\ tasks[i].id \in Int
        /\ tasks[i].id >= 1
        /\ \A j \in DOMAIN tasks : i # j => tasks[i].id # tasks[j].id

\* a task was created after task 1 was deleted and another was updated
C1_Witness ==
    /\ Created
    /\ 1 \notin Ids(tasks)
    /\ Len(tasks) >= 2
    /\ \E i \in DOMAIN tasks : tasks[i].completed = "true"

\* C2 as stated: the id given to a newly created task differs from the id of
\* every task that was ever in the collection, deleted ones included.
C2_NeverReused ==
    [][ Created' => resp'.body.id \notin ever_ids ]_vars

\* C2 as amended: the id given to a newly created task differs from every id
\* in the collection at that time; it is the id of an earlier, deleted task
\* only if that id is greater than every id still in the collection.
C2_NewIdAboveCurrent ==
    [][ Created' =>
          /\ resp'.body.id \notin Ids(tasks)
          /\ resp'.body.id \in ever_ids =>
                \A id \in Ids(tasks) : id < resp'.body.id ]_vars

\* a new task holds id 2, which seed task 2 held before it was deleted
C2_Witness ==
    /\ Created
    /\ resp.body.id = 2
    /\ resp.body.created_at \in Clock
    /\ \E i \in DOMAIN tasks : tasks[i] = resp.body

\* C3: a create whose parsed body has no title, or an empty title, is
\* answered 400 "Title is required" and leaves the collection as it was.
C3_TitleRequired ==
    [][ \A body \in CreateBodies :
          ( /\ ~GetJsonRaises(body)
            /\ ~HasKey(body, "title") \/ body.obj["title"] = ""
            /\ create_task(body) )
          => /\ resp' = Response("create_task", 400,
                                 ErrorBody("Title is required"))
             /\ tasks' = tasks ]_vars

\* C4: a create or update whose body does not parse as JSON is answered 400
\* and never 500 (404 when the id to update is absent); the update of an
\* existing id answers 400 "No data provided".
C4_UnparseableIs400 ==
    [][ \A body \in CompletedBodies : GetJsonRaises(body) =>
          /\ create_task(body) => resp'.status = 400
          /\ \A task_id \in TaskIds : update_task(task_id, body) =>
                IF task_id \in Ids(tasks)
                THEN resp' = Response("update_task", 400,
                                      ErrorBody("No data provided"))
                ELSE resp'.status \in {400, 404} ]_vars

\* C5: a successful update of task_id changes, of that task, only those of
\* title, description and completed that the patch holds: a field the patch
\* omits keeps its value, id and created_at stay whatever the patch holds,
\* and every other task is unchanged.
C5_UpdateFrame ==
    [][ (resp'.handler = "update_task" /\ resp'.status = 200) =>
          \A task_id \in TaskIds : \A body \in PatchBodies :
            update_task(task_id, body) =>
              /\ Len(tasks') = Len(tasks)
              /\ \A i \in DOMAIN tasks :
                    IF tasks[i].id = task_id
                    THEN /\ tasks'[i].id = tasks[i].id
                         /\ tasks'[i].created_at = tasks[i].created_at
                         /\ \A k \in {"title", "description", "completed"} :
                               tasks'[i][k] = IF k \in DOMAIN body.obj
                                              THEN body.obj[k]
                                              ELSE tasks[i][k]
                    ELSE tasks'[i] = tasks[i] ]_vars

\* task 1 got a new title from a patch, its description and created_at kept
C5_Witness ==
    /\ resp.handler = "update_task"
    /\ resp.status = 200
    /\ resp.body.id = 1
    /\ resp.body.title = "Write tests"
    /\ resp.body.description = "Understand containerization"
    /\ resp.body.created_at = "2024-01-01T00:00:00Z"
    /\ \E i \in DOMAIN tasks : tasks[i] = resp.body

\* the list l with exactly the task of that id taken out
Removed(l, task_id) ==
    { SubSeq(l, 1, i - 1) \o SubSeq(l, i + 1, Len(l)) :
        i \in {j \in DOMAIN l : l[j].id = task_id} }

\* C6: the delete of an id in the collection answers 200 and removes exactly
\* that task, after which a get and a second delete of the id answer 404
\* "Task not found" for as long as nothing is created; the delete of an id
\* not in the collection answers 404 and removes nothing.
C6_DeleteRemoves ==
    [][ \A task_id \in TaskIds :
          /\ (resp'.handler = "delete_task" /\ delete_task(task_id)) =>
                IF task_id \in Ids(tasks)
                THEN /\ resp'.status = 200
                     /\ tasks' \in Removed(tasks, task_id)
                     /\ task_id \notin Ids(tasks')
                ELSE /\ resp' = TaskNotFound("delete_task")
                     /\ tasks' = tasks
          /\ ( /\ resp'.handler = "get_task"
                /\ task_id \notin Ids(tasks)
                /\ get_task(task_id) ) =>
                resp' = TaskNotFound("get_task")
          /\ (task_id \notin Ids(tasks) /\ ~Created') =>
                task_id \notin Ids(tasks') ]_vars

\* task 2 was deleted and a further delete has been answered 404
C6_Witness ==
    /\ resp = TaskNotFound("delete_task")
    /\ Ids(tasks) = {1}
    /\ ever_ids = {1, 2}

\* C7: whatever was created, updated (also to a completed that is no
\* boolean) and deleted, the metrics report total_tasks as the size of the
\* collection and as completed_tasks + pending_tasks.
C7_MetricsAddUp ==
    resp.handler = "metrics" =>
        /\ resp.body.total_tasks = Len(tasks)
        /\ resp.body.total_tasks =
              resp.body.completed_tasks + resp.body.pending_tasks

\* metrics read while a task is completed "yes" and another was deleted
C7_Witness ==
    /\ resp.handler = "metrics"
    /\ resp.body.completed_tasks >= 1
    /\ \E i \in DOMAIN tasks : tasks[i].completed = "yes"
    /\ Ids(tasks) # ever_ids

\* the routes of the API table; "<int>" stands for {id}
ApiTable ==
    { [method |-> "GET", path |-> <<>>],
      [method |-> "GET", path |-> <<"health">>],
      [method |-> "GET", path |-> <<"ready">>],
      [method |-> "GET", path |-> <<"tasks">>],
      [method |-> "GET", path |-> <<"tasks", "<int>">>],
      [method |-> "POST", path |-> <<"tasks">>],
      [method |-> "PUT", path |-> <<"tasks", "<int>">>],
      [method |-> "DELETE", path |-> <<"tasks", "<int>">>],
      [method |-> "GET", path |-> <<"metrics">>] }

\* the path is one of the table, an id being a run of digits
InTablePath(entry, path) ==
    /\ Len(entry) = Len(path)
    /\ \A i \in DOMAIN entry :
          entry[i] = path[i] \/ (entry[i] = "<int>" /\ path[i] \in Range(Digits))

KnownPath(path) == \E e \in ApiTable : InTablePath(e.path, path)

InApiTable(rq) ==
    \E e \in ApiTable : e.method = rq.method /\ InTablePath(e.path, rq.path)

EndpointNotFound == Response("not_found", 404, ErrorBody("Endpoint not found"))

\* the dispatched request is no route of the API table
OffTable == req # NoRequest /\ ~InApiTable(req)

C9_ConcurrentCreatesDistinct ==
    /\ \A t, u \in Threads :
          ( /\ t # u
            /\ local[t].served = 1 /\ local[u].served = 1
            /\ local[t].resp.status = 201 /\ local[u].resp.status = 201 )
          => local[t].resp.body.id # local[u].resp.body.id
    /\ Cardinality(Ids(tasks)) = Len(tasks)

\* C10: when one thread's create and the other's delete of a different id of
\* the collection were both answered with success, the created task is in
\* the collection and the deleted one is not.
C10_CreateAndDeleteAtomic ==
    \A t, u \in Threads :
        ( /\ t # u
          /\ pc[t] = "idle" /\ pc[u] = "idle"
          /\ local[t].served = 1 /\ local[u].served = 1
          /\ local[t].resp.handler = "create_task"
          /\ local[t].resp.status = 201
          /\ local[u].resp.handler = "delete_task"
          /\ local[u].resp.status = 200 )
        => ( local[u].resp.body.task_id # local[t].resp.body.id =>
               /\ \E i \in DOMAIN tasks : tasks[i] = local[t].resp.body
               /\ local[u].resp.body.task_id \notin Ids(tasks) )

====
